---- MODULE Spec2Model ----
(***************************************************************************)
(* Pixtract: the frame-curation pipeline (extract_frames and               *)
(* process_video_frames of pixtract/processing.py, the scoring helpers of  *)
(* pixtract/utils.py) and the batch driver of pixtract/main.py             *)
(* (_get_video_files, _prepare_output_directory, _process_videos,          *)
(* _log_summaries).                                                        *)
(*                                                                         *)
(* Every job of the process pool is a process of its own: its steps are    *)
(* the filesystem operations of the code (makedirs, imwrite, listdir,      *)
(* imread, remove), one action each, so that the jobs of a batch           *)
(* interleave exactly where the operating system lets them.                *)
(*                                                                         *)
(* Abstractions.  An image is the record [ok, s, g]: ok says whether       *)
(* cv2.imread decodes it, s is the variance of its Laplacian, g places it  *)
(* on a line so that the structural similarity of two images falls with    *)
(* their distance.  Floats are integers: a similarity and the duplicate    *)
(* threshold are hundredths.  A frame file is named by the digits of its   *)
(* name, "frame_" and ".jpg" being the same for all of them.  The calls    *)
(* the code guards with try/except or tests for failure (makedirs,         *)
(* imwrite, listdir, remove, os.access, a decoder that raises) fail        *)
(* nondeterministically, at most MaxFaults times in a run.                 *)
(***************************************************************************)
EXTENDS Integers, Sequences, FiniteSets, TLC

\* ------------------------------------------------------------------ bounds

\* The longest video, in original frames.
MaxFrames == 3

\* The longest video of a directory batch, in original frames.
MaxBatchFrames == 1

\* How many environment failures one run injects at most.
MaxFaults == 1

\* ------------------------------------------------------- program constants

\* f"frame_{frame_count:04d}.jpg": the minimum width of the index.
PadWidth == 4

\* -------------------------------------------------------------- the inputs

\* Images a video frame or a file can hold.  The sharpness values sit below,
\* on and above the default threshold of 100; the g values give the
\* similarities 1.0, 0.5, 0.0 and -0.5, and make similarity non-transitive
\* (at threshold 0.0 the first is similar to the second and the second to
\* the third, the first not to the third).
SharpImages ==
    { [ok |-> TRUE, s |-> 150, g |-> 0],
      [ok |-> TRUE, s |-> 100, g |-> 1],
      [ok |-> TRUE, s |-> 0,   g |-> 3] }

\* A .jpg file cv2.imread cannot decode.
Garbage == [ok |-> FALSE, s |-> 0, g |-> 0]

\* --frame-interval (cli.positive_int: >= 1).
Intervals == {1, 2}

\* --sharpness (an int).
SharpnessThresholds == {0, 100}

\* --duplicate (a float), in hundredths.
DuplicateThresholds == {0, 50, 100}

\* ------------------------------------------------------------ pure helpers

Max(a, b) == IF a >= b THEN a ELSE b

Abs(x) == IF x >= 0 THEN x ELSE -x

RECURSIVE Digits(_)
\* str(n) for n >= 0, as the sequence of its decimal digits.
Digits(n) == IF n < 10 THEN <<n>> ELSE Append(Digits(n \div 10), n % 10)

RECURSIVE ZeroPad(_, _)
ZeroPad(ds, width) == IF Len(ds) >= width THEN ds ELSE ZeroPad(<<0>> \o ds, width)

FrameFilenameByCount(frame_count, saved_frame_count) ==
    ZeroPad(Digits(saved_frame_count), PadWidth)

\* processing.py:62  f"frame_{frame_count:04d}.jpg", of the two counters the
\* loop keeps.
FrameFilename(frame_count, saved_frame_count) ==
    ZeroPad(Digits(frame_count), PadWidth)

RECURSIVE StrLess(_, _)
\* Python's str <: lexicographic, a proper prefix first ('.' < '0', so the
\* ".jpg" after a shorter index sorts before a further digit).
StrLess(a, b) ==
    IF a = <<>> THEN b # <<>>
    ELSE IF b = <<>> THEN FALSE
    ELSE IF Head(a) # Head(b) THEN Head(a) < Head(b)
    ELSE StrLess(Tail(a), Tail(b))

RECURSIVE Sorted(_)
\* list.sort() of a list of distinct strings.
Sorted(S) ==
    IF S = {} THEN <<>>
    ELSE LET m == CHOOSE x \in S : \A y \in S \ {x} : StrLess(x, y)
         IN  <<m>> \o Sorted(S \ {m})

\* utils.py:17-28: 0.0 for a file that does not decode, else the variance of
\* the Laplacian.
CalculateSharpness(img) == IF ~img.ok THEN 0 ELSE img.s

IsBlurryNonStrict(sharpness, sharpness_threshold) == sharpness <= sharpness_threshold

IsBlurryInverted(sharpness, sharpness_threshold) == sharpness > sharpness_threshold

\* processing.py:130  if sharpness < sharpness_threshold
IsBlurry(sharpness, sharpness_threshold) == sharpness < sharpness_threshold

\* skimage's structural_similarity of two decoded images, in hundredths:
\* 100 for identical structure, falling by 50 per step of distance, down to
\* negative values for structures that run against each other (the index
\* ranges over [-1, 1]; utils.py:62 uses it as it comes).
Ssim(img1, img2) == 100 - 50 * Abs(img1.g - img2.g)

AreImagesDuplicatesUnreadableMatches(img1, img2, duplicate_threshold) ==
    IF ~img1.ok THEN TRUE
    ELSE IF ~img2.ok THEN TRUE
    ELSE Ssim(img1, img2) >= duplicate_threshold

AreImagesDuplicatesStrict(img1, img2, duplicate_threshold) ==
    IF ~img1.ok THEN FALSE
    ELSE IF ~img2.ok THEN FALSE
    ELSE Ssim(img1, img2) > duplicate_threshold

\* utils.py:42-69: False when either file does not decode, else
\* similarity_index >= duplicate_threshold.
AreImagesDuplicates(img1, img2, duplicate_threshold) ==
    IF ~img1.ok THEN FALSE
    ELSE IF ~img2.ok THEN FALSE
    ELSE Ssim(img1, img2) >= duplicate_threshold

\* ----------------------------------------------------------------- naming

\* The files an input directory can hold.  Only the last component of a
\* path matters to the code; a name is its stem and its extension.
DirEntries ==
    { [stem |-> "a", ext |-> "mp4"],
      [stem |-> "a", ext |-> "MP4"],
      [stem |-> "b", ext |-> "mp4"],
      [stem |-> "b", ext |-> "txt"] }

\* str.lower() on the extensions in use.
Lower(ext) == IF ext = "MP4" THEN "mp4" ELSE ext

\* config.VIDEO_EXTENSIONS: the enumerated list of container extensions.
VIDEO_EXTENSIONS == {"mp4"}

\* main.py:68  f.lower().endswith(config.VIDEO_EXTENSIONS)
IsVideoName(f) == Lower(f.ext) \in VIDEO_EXTENSIONS

\* The output directory main() settles on (_determine_output_directory).
OutputDirectory == <<"out">>

\* main.py:78-81  join(output_directory, splitext(basename(video_file))[0])
\* for a directory input, output_directory itself for a single file.
VideoSpecificOutputFolder(video_file, isdir) ==
    IF isdir THEN <<"out", video_file.stem>> ELSE OutputDirectory

\* The directories a run can touch.
Folders == {OutputDirectory} \cup {<<"out", f.stem>> : f \in DirEntries}

\* Original indices on both sides of the point where the index outgrows the
\* four digits of the format: frames of a video of more than 10000 frames.
LongIndices == {9999, 10000}

\* The frame file names a run can meet.
Names ==
    {FrameFilename(n, n) : n \in 0 .. (Max(MaxFrames, MaxBatchFrames) - 1)}
        \cup {FrameFilename(n, n) : n \in LongIndices}

\* No file of that name.
Absent == [ok |-> FALSE, s |-> -1, g |-> -1]

EmptyFolder == [exists |-> TRUE, files |-> [n \in Names |-> Absent]]

NoFolder == [exists |-> FALSE, files |-> [n \in Names |-> Absent]]

\* os.listdir(folder) filtered by f.endswith(".jpg"), as a set: the order
\* the operating system lists them in is arbitrary.
JpgFiles(filesystem, folder) ==
    {n \in Names : filesystem[folder].files[n] # Absent}

\* os.makedirs(folder): the folder and every missing parent.
Makedirs(filesystem, folder) ==
    [d \in Folders |->
        IF d = folder \/ (Len(d) < Len(folder) /\ d = SubSeq(folder, 1, Len(d)))
        THEN [filesystem[d] EXCEPT !.exists = TRUE]
        ELSE filesystem[d]]

\* cv2.imwrite(folder/name, img)
WriteFile(filesystem, folder, name, img) ==
    [filesystem EXCEPT ![folder].files[name] = img]

\* os.remove(folder/name)
RemoveFile(filesystem, folder, name) ==
    [filesystem EXCEPT ![folder].files[name] = Absent]

Min(a, b) == IF a <= b THEN a ELSE b

\* video_files[:limit]
Slice(s, n) ==
    IF n >= 0 THEN SubSeq(s, 1, Min(n, Len(s)))
    ELSE SubSeq(s, 1, Max(0, Len(s) + n))

RECURSIVE SelectVideos(_)
\* The list comprehension of main.py:68, in listing order.
SelectVideos(listing) ==
    IF listing = <<>> THEN <<>>
    ELSE IF IsVideoName(Head(listing))
         THEN <<Head(listing)>> \o SelectVideos(Tail(listing))
         ELSE SelectVideos(Tail(listing))

\* main.py:63-72.  limit is << >> for None, <<n>> for --limit n.
GetVideoFiles(isdir, listing, limit) ==
    LET found == IF isdir THEN SelectVideos(listing) ELSE listing
    IN  IF limit # <<>> /\ limit[1] # 0 THEN Slice(found, limit[1]) ELSE found

\* ---------------------------------------------------------------- the state

VARIABLES
    args,                 \* the parsed arguments (cli.parse_args)
    input,                \* the input path: [isdir, listing]
    media,                \* each video file's container: [openable, frames]
    fs,                   \* the filesystem under the output directory
    fs0,                  \* fs as the run found it
    mainpc,               \* where main() is
    video_files,          \* main.py:188
    job,                  \* the pool's jobs, one per submitted video
    processing_summaries, \* main.py:95
    totals,               \* the totals _log_summaries reports
    faults                \* environment failures injected so far

vars ==
    <<args, input, media, fs, fs0, mainpc, video_files, job,
      processing_summaries, totals, faults>>

\* The dict process_video_frames returns; a key the dict lacks is "none".
Summary(video, folder, extracted, blurry, duplicates, final, error) ==
    [ video |-> video, output_folder |-> folder,
      extracted_frames |-> extracted, blurry_frames_removed |-> blurry,
      duplicate_frames_removed |-> duplicates, final_frames_count |-> final,
      status |-> "none", error |-> error ]

\* processing.py:100-107
ZeroSummary(video, folder) == Summary(video, folder, 0, 0, 0, 0, "none")

\* main.py:115-124
FailedSummary(video) ==
    [ video |-> video, output_folder |-> <<"N/A">>,
      extracted_frames |-> 0, blurry_frames_removed |-> 0,
      duplicate_frames_removed |-> 0, final_frames_count |-> 0,
      status |-> "failed", error |-> "exception" ]

\* A job as executor.submit queues it (main.py:100-103), with the locals of
\* extract_frames and process_video_frames at their initial values.
NewJob(video_file, isdir) ==
    [ pc |-> "queued",
      video |-> video_file,
      output_folder |-> VideoSpecificOutputFolder(video_file, isdir),
      cap |-> "none",
      frame_count |-> 0,
      saved_frame_count |-> 0,
      frame_files |-> {},
      blurry_frames_removed |-> 0,
      remaining_frames |-> <<>>,
      i |-> 0,
      j |-> 0,
      to_remove |-> {},
      pending |-> {},
      duplicates_removed |-> 0,
      result |-> ZeroSummary(video_file, <<"N/A">>),
      collected |-> FALSE,
      \* History, read by the properties only:
      logged |-> {},                          \* the errors the job logged
      unwritten |-> {},                       \* frame indices whose imwrite failed
      listed |-> [n \in Names |-> Absent],    \* the folder as processing.py:113 listed it
      unremoved |-> {},                       \* blurry frames os.remove failed on
      snapshot |-> [n \in Names |-> Absent],  \* the folder as processing.py:142 listed it
      undeleted |-> {} ]                      \* duplicates os.remove failed on

Jobs == DOMAIN job

Running(k) == job[k].pc \notin {"queued", "done", "raised"}

\* An environment failure may be injected.
MayFail == faults < MaxFaults

Fail == faults' = faults + 1

NoFail == faults' = faults

\* ------------------------------------------------------------------- Init

SeqsUpTo(S, n) == UNION {[1 .. m -> S] : m \in 0 .. n}

NoMedia == [openable |-> FALSE, frames |-> <<>>]

\* A folder a previous run left behind: one stale file no decoder reads.
StaleFolder ==
    [exists |-> TRUE,
     files |-> [n \in Names |-> IF n = FrameFilename(1, 1) THEN Garbage ELSE Absent]]

InitialFolders == {NoFolder, EmptyFolder, StaleFolder}

InitControl ==
    /\ mainpc = "discover"
    /\ video_files = <<>>
    /\ job = <<>>
    /\ processing_summaries = <<>>
    /\ totals = [extracted |-> 0, blurry |-> 0, duplicate |-> 0, final |-> 0, failed |-> 0]
    /\ faults = 0
    /\ fs0 = fs

\* pixtract <video file>: one video, every combination of the parameters.
InitSingle ==
    /\ \E v \in {[stem |-> "a", ext |-> "mp4"]} :
         /\ input = [isdir |-> FALSE, listing |-> <<v>>]
         /\ \E m \in {NoMedia} \cup
                     {[openable |-> TRUE, frames |-> fr] :
                          fr \in SeqsUpTo(SharpImages, MaxFrames)} :
              media = [f \in DirEntries |-> IF f = v THEN m ELSE NoMedia]
    /\ args \in [ dry_run : BOOLEAN, interval : Intervals,
                  sharpness : SharpnessThresholds,
                  duplicate_threshold : DuplicateThresholds,
                  limit : {<<>>}, workers : {1} ]
    /\ \E folder \in InitialFolders :
         fs = [d \in Folders |-> IF d = OutputDirectory THEN folder ELSE NoFolder]
    /\ InitControl

\* The listings of an input directory: up to two of its entries, in the
\* order os.listdir happens to give them.
Listings ==
    {<<>>} \cup {<<e>> : e \in DirEntries}
        \cup {p \in DirEntries \X DirEntries : p[1] # p[2]}

Range(s) == {s[x] : x \in DOMAIN s}

\* pixtract <directory>: short videos, the default thresholds in spirit
\* (sharpness 100, duplicates at 0.5), one or two workers.
InitBatch ==
    /\ \E listing \in Listings :
         /\ input = [isdir |-> TRUE, listing |-> listing]
         /\ media \in [DirEntries -> {NoMedia} \cup
                          {[openable |-> TRUE, frames |-> fr] :
                               fr \in SeqsUpTo(SharpImages, MaxBatchFrames)}]
         /\ \A f \in DirEntries :
              (f \notin Range(listing) \/ ~IsVideoName(f)) => media[f] = NoMedia
         /\ \A f \in Range(listing) : IsVideoName(f) => media[f].openable
    /\ args \in [ dry_run : BOOLEAN, interval : {1},
                  sharpness : {100}, duplicate_threshold : {50},
                  limit : {<<>>, <<0>>, <<1>>}, workers : {1, 2} ]
    /\ fs = [d \in Folders |-> NoFolder]
    /\ InitControl

Init == InitSingle \/ InitBatch

\* The folders an earlier run over a video of more than 10000 frames can have
\* left: frames with the indices of LongIndices, each there or not.
LongFolders ==
    { [exists |-> TRUE, files |-> f] :
        f \in { g \in [Names -> SharpImages \cup {Absent}] :
                    \A n \in Names :
                        n \notin {FrameFilename(x, x) : x \in LongIndices}
                            => g[n] = Absent } }

\* pixtract <video file> -o <folder>: a video of at most one frame, sent to
\* a folder that holds frames of a long video.
InitLong ==
    /\ \E v \in {[stem |-> "a", ext |-> "mp4"]} :
         /\ input = [isdir |-> FALSE, listing |-> <<v>>]
         /\ \E m \in {NoMedia} \cup
                     {[openable |-> TRUE, frames |-> fr] :
                          fr \in SeqsUpTo(SharpImages, 1)} :
              media = [f \in DirEntries |-> IF f = v THEN m ELSE NoMedia]
    /\ args \in [ dry_run : BOOLEAN, interval : {1},
                  sharpness : SharpnessThresholds,
                  duplicate_threshold : DuplicateThresholds,
                  limit : {<<>>}, workers : {1} ]
    /\ \E folder \in LongFolders :
         fs = [d \in Folders |-> IF d = OutputDirectory THEN folder ELSE NoFolder]
    /\ InitControl

\* ------------------------------------------------------------------ main()

\* main.py:188  video_files = _get_video_files(input_path, limit)
Discover ==
    /\ mainpc = "discover"
    /\ video_files' = GetVideoFiles(input.isdir, input.listing, args.limit)
    /\ mainpc' = "prepare"
    /\ UNCHANGED <<args, input, media, fs, fs0, job, processing_summaries, totals, faults>>

\* main.py:49-50: whether _prepare_output_directory goes on to touch the
\* filesystem.
PrepareCreates(dry_run) == ~dry_run

\* main.py:47-61  _prepare_output_directory; sys.exit(1) ends the run.
PrepareOutputDirectory ==
    /\ mainpc = "prepare"
    /\ \/ /\ ~PrepareCreates(args.dry_run)
          /\ mainpc' = "submit"
          /\ UNCHANGED <<fs, faults>>
       \/ /\ PrepareCreates(args.dry_run)
          /\ fs[OutputDirectory].exists
          /\ \/ mainpc' = "submit" /\ NoFail
             \/ MayFail /\ Fail /\ mainpc' = "exit"   \* not os.access(W_OK)
          /\ UNCHANGED fs
       \/ /\ PrepareCreates(args.dry_run)
          /\ ~fs[OutputDirectory].exists
          /\ \/ /\ fs' = Makedirs(fs, OutputDirectory)
                /\ mainpc' = "submit"
                /\ NoFail
             \/ /\ MayFail /\ Fail                    \* makedirs raises OSError
                /\ mainpc' = "exit"
                /\ UNCHANGED fs
    /\ UNCHANGED <<args, input, media, fs0, video_files, job, processing_summaries, totals>>

\* main.py:98-103: the pool is created and every video submitted.
Submit ==
    /\ mainpc = "submit"
    /\ job' = [k \in 1 .. Len(video_files) |-> NewJob(video_files[k], input.isdir)]
    /\ mainpc' = "pool"
    /\ UNCHANGED <<args, input, media, fs, fs0, video_files, processing_summaries, totals, faults>>

\* A free worker of the pool takes the oldest queued call.
Start(k) ==
    /\ mainpc = "pool"
    /\ job[k].pc = "queued"
    /\ \A m \in Jobs : m < k => job[m].pc # "queued"
    /\ Cardinality({m \in Jobs : Running(m)}) < args.workers
    /\ job' = [job EXCEPT ![k].pc = "makedirs"]
    /\ UNCHANGED <<args, input, media, fs, fs0, mainpc, video_files, processing_summaries, totals, faults>>

\* ---------------------------------------------------------- extract_frames

Return(k, summary) == [job EXCEPT ![k].pc = "done", ![k].result = summary]

TouchesDiskAlways(dry_run) == TRUE

\* processing.py:23, 63, 112, 127, 141, 157, 175  `if not dry_run`
TouchesDisk(dry_run) == ~dry_run

IsSampledOffByOne(frame_count, frame_interval) == (frame_count + 1) % frame_interval = 0

\* processing.py:53  if frame_count % frame_interval == 0
IsSampled(frame_count, frame_interval) == frame_count % frame_interval = 0

SavedInDryRunUncounted(saved_frame_count) == saved_frame_count

\* processing.py:72  saved_frame_count += 1 # Assume success in dry run
SavedInDryRun(saved_frame_count) == saved_frame_count + 1

\* processing.py:65-68: only a write imwrite reports as done is counted.
SavedAfterWrite(saved_frame_count, written) ==
    IF written THEN saved_frame_count + 1 ELSE saved_frame_count

\* processing.py:23-28  os.makedirs(output_folder, exist_ok=True); on
\* OSError extract_frames returns 0 and process_video_frames its zero
\* summary (processing.py:99-107).
ExtractMakedirs(k) ==
    /\ job[k].pc = "makedirs"
    /\ \/ /\ ~TouchesDisk(args.dry_run)
          /\ job' = [job EXCEPT ![k].pc = "open"]
          /\ UNCHANGED <<fs, faults>>
       \/ /\ TouchesDisk(args.dry_run)
          /\ fs' = Makedirs(fs, job[k].output_folder)
          /\ job' = [job EXCEPT ![k].pc = "open"]
          /\ NoFail
       \/ /\ TouchesDisk(args.dry_run)
          /\ MayFail /\ Fail
          /\ job' = [Return(k, ZeroSummary(job[k].video, job[k].output_folder))
                        EXCEPT ![k].logged = @ \cup {"makedirs"}]
          /\ UNCHANGED fs
    /\ UNCHANGED <<args, input, media, fs0, mainpc, video_files, processing_summaries, totals>>

\* processing.py:30-45  cv2.VideoCapture; a video that does not open makes
\* extract_frames return 0.
ExtractOpen(k) ==
    /\ job[k].pc = "open"
    /\ IF media[job[k].video].openable
       THEN job' = [job EXCEPT ![k].pc = "read", ![k].cap = "open",
                               ![k].frame_count = 0, ![k].saved_frame_count = 0]
       ELSE job' = [Return(k, ZeroSummary(job[k].video, job[k].output_folder))
                       EXCEPT ![k].logged = @ \cup {"open"}]
    /\ UNCHANGED <<args, input, media, fs, fs0, mainpc, video_files, processing_summaries, totals, faults>>

\* processing.py:48-79: one turn of the decoding loop, or its end
\* (cap.release(), return saved_frame_count, then processing.py:99).
ExtractRead(k) ==
    /\ job[k].pc = "read"
    /\ LET frames == media[job[k].video].frames
           fc == job[k].frame_count
           name == FrameFilename(fc, job[k].saved_frame_count)
       IN  \/ /\ fc = Len(frames)                       \* ret is False
              /\ job' = IF job[k].saved_frame_count = 0
                        THEN [Return(k, ZeroSummary(job[k].video, job[k].output_folder))
                                 EXCEPT ![k].cap = "released"]
                        ELSE [job EXCEPT ![k].pc = "list_blur", ![k].cap = "released"]
              /\ UNCHANGED <<fs, faults>>
           \/ /\ fc < Len(frames)
              /\ ~IsSampled(fc, args.interval)
              /\ job' = [job EXCEPT ![k].frame_count = fc + 1]
              /\ UNCHANGED <<fs, faults>>
           \/ /\ fc < Len(frames)
              /\ IsSampled(fc, args.interval)
              /\ ~TouchesDisk(args.dry_run)
              /\ job' = [job EXCEPT ![k].frame_count = fc + 1,
                                    ![k].saved_frame_count = SavedInDryRun(@)]
              /\ UNCHANGED <<fs, faults>>
           \/ /\ fc < Len(frames)
              /\ IsSampled(fc, args.interval)
              /\ TouchesDisk(args.dry_run)
              /\ fs' = WriteFile(fs, job[k].output_folder, name, frames[fc + 1])
              /\ job' = [job EXCEPT ![k].frame_count = fc + 1,
                                    ![k].saved_frame_count = SavedAfterWrite(@, TRUE)]
              /\ NoFail
           \/ /\ fc < Len(frames)
              /\ IsSampled(fc, args.interval)
              /\ TouchesDisk(args.dry_run)
              /\ MayFail /\ Fail                        \* imwrite fails or raises
              /\ job' = [job EXCEPT ![k].frame_count = fc + 1,
                                    ![k].saved_frame_count = SavedAfterWrite(@, FALSE),
                                    ![k].unwritten = @ \cup {fc},
                                    ![k].logged = @ \cup {"imwrite"}]
              /\ UNCHANGED fs
           \/ /\ fc < Len(frames)
              /\ MayFail /\ Fail                        \* cap.read or cv2.rotate raises
              /\ job' = [job EXCEPT ![k].pc = "raised"]
              /\ UNCHANGED fs
    /\ UNCHANGED <<args, input, media, fs0, mainpc, video_files, processing_summaries, totals>>

\* ---------------------------------------------------- process_video_frames

\* processing.py:109-124: the listing the sharpness stage works from.  Its
\* order is the operating system's, so frame_files is kept as the set of
\* files still to be visited and the loop takes any of them next.
ListForBlur(k) ==
    /\ job[k].pc = "list_blur"
    /\ \/ /\ ~TouchesDisk(args.dry_run)
          /\ job' = [job EXCEPT ![k].pc = "list_dup", ![k].frame_files = {}]
          /\ NoFail
       \/ /\ TouchesDisk(args.dry_run)
          /\ LET listed == JpgFiles(fs, job[k].output_folder)
             IN  job' = [job EXCEPT ![k].frame_files = listed,
                                    ![k].listed = fs[job[k].output_folder].files,
                                    ![k].pc = IF listed = {} THEN "list_dup" ELSE "blur"]
          /\ NoFail
       \/ /\ TouchesDisk(args.dry_run)
          /\ MayFail /\ Fail                            \* os.listdir raises OSError
          /\ job' = [Return(k, Summary(job[k].video, job[k].output_folder,
                                       job[k].saved_frame_count, 0, 0,
                                       job[k].saved_frame_count, "blur listing"))
                        EXCEPT ![k].logged = @ \cup {"blur listing"}]
    /\ UNCHANGED <<args, input, media, fs, fs0, mainpc, video_files, processing_summaries, totals>>

AfterBlurCheckLeavingRest(rest) == "list_dup"

\* processing.py:128  for frame_file in frame_files: the loop goes on while
\* a listed file is left to visit, and only then is processing.py:138 reached.
AfterBlurCheck(rest) == IF rest = {} THEN "list_dup" ELSE "blur"

\* processing.py:128-136: one turn of the sharpness loop.  os.remove of a
\* file that is no longer there raises FileNotFoundError, an OSError.
BlurCheck(k) ==
    /\ job[k].pc = "blur"
    /\ \E f \in job[k].frame_files :
         LET img == fs[job[k].output_folder].files[f]
             sharpness == CalculateSharpness(img)
             rest == job[k].frame_files \ {f}
             next == AfterBlurCheck(rest)
         IN  \/ /\ ~IsBlurry(sharpness, args.sharpness)
                /\ job' = [job EXCEPT ![k].frame_files = rest, ![k].pc = next]
                /\ UNCHANGED <<fs, faults>>
             \/ /\ IsBlurry(sharpness, args.sharpness)
                /\ img # Absent
                /\ fs' = RemoveFile(fs, job[k].output_folder, f)
                /\ job' = [job EXCEPT ![k].frame_files = rest, ![k].pc = next,
                                      ![k].blurry_frames_removed = @ + 1]
                /\ NoFail
             \/ /\ IsBlurry(sharpness, args.sharpness)
                /\ img = Absent
                /\ job' = [job EXCEPT ![k].frame_files = rest, ![k].pc = next,
                                      ![k].logged = @ \cup {"remove"}]
                /\ UNCHANGED <<fs, faults>>
             \/ /\ IsBlurry(sharpness, args.sharpness)
                /\ img # Absent
                /\ MayFail /\ Fail                      \* os.remove raises OSError
                /\ job' = [job EXCEPT ![k].frame_files = rest, ![k].pc = next,
                                      ![k].unremoved = @ \cup {f},
                                      ![k].logged = @ \cup {"remove"}]
                /\ UNCHANGED fs
    /\ UNCHANGED <<args, input, media, fs0, mainpc, video_files, processing_summaries, totals>>

\* processing.py:138-157: the sorted listing the duplicate stage works from;
\* the pass runs only over more than one frame.
ListForDup(k) ==
    /\ job[k].pc = "list_dup"
    /\ \/ /\ ~TouchesDisk(args.dry_run)
          /\ job' = [job EXCEPT ![k].pc = "count", ![k].remaining_frames = <<>>,
                                ![k].duplicates_removed = 0]
          /\ NoFail
       \/ /\ TouchesDisk(args.dry_run)
          /\ LET remaining == Sorted(JpgFiles(fs, job[k].output_folder))
             IN  job' = [job EXCEPT ![k].remaining_frames = remaining,
                                    ![k].snapshot = fs[job[k].output_folder].files,
                                    ![k].duplicates_removed = 0,
                                    ![k].to_remove = {},
                                    ![k].i = 1, ![k].j = 2,
                                    ![k].pc = IF Len(remaining) > 1 THEN "dup" ELSE "count"]
          /\ NoFail
       \/ /\ TouchesDisk(args.dry_run)
          /\ MayFail /\ Fail                            \* os.listdir raises OSError
          /\ job' = [Return(k, Summary(job[k].video, job[k].output_folder,
                                       job[k].saved_frame_count,
                                       job[k].blurry_frames_removed, 0,
                                       job[k].saved_frame_count - job[k].blurry_frames_removed,
                                       "duplicate listing"))
                        EXCEPT ![k].logged = @ \cup {"duplicate listing"}]
    /\ UNCHANGED <<args, input, media, fs, fs0, mainpc, video_files, processing_summaries, totals>>

MarkSkippingRemovedAnchors(to_remove, fi, fj, img_i, img_j, duplicate_threshold) ==
    IF fj \in to_remove \/ fi \in to_remove THEN to_remove
    ELSE IF AreImagesDuplicates(img_i, img_j, duplicate_threshold)
         THEN to_remove \cup {fj}
         ELSE to_remove

MarkAtMostOne(to_remove, fi, fj, img_i, img_j, duplicate_threshold) ==
    IF to_remove # {} THEN to_remove
    ELSE IF AreImagesDuplicates(img_i, img_j, duplicate_threshold)
         THEN to_remove \cup {fj}
         ELSE to_remove

\* processing.py:161-164: the body of the inner loop for the pair (i, j).
Mark(to_remove, fi, fj, img_i, img_j, duplicate_threshold) ==
    IF fj \in to_remove THEN to_remove
    ELSE IF AreImagesDuplicates(img_i, img_j, duplicate_threshold)
         THEN to_remove \cup {fj}
         ELSE to_remove

\* A pass that deletes a frame the moment it marks it.
ComparePairDeletingAtOnce(k) ==
    /\ job[k].pc = "dup"
    /\ LET rf == job[k].remaining_frames
           n == Len(rf)
           i == job[k].i
           j == job[k].j
           files == fs[job[k].output_folder].files
           marked == Mark(job[k].to_remove, rf[i], rf[j], files[rf[i]], files[rf[j]],
                          args.duplicate_threshold)
       IN  /\ fs' = IF marked # job[k].to_remove
                     THEN RemoveFile(fs, job[k].output_folder, rf[j]) ELSE fs
           /\ job' = IF j < n
                      THEN [job EXCEPT ![k].to_remove = marked, ![k].j = j + 1]
                      ELSE IF i + 1 < n
                      THEN [job EXCEPT ![k].to_remove = marked, ![k].i = i + 1, ![k].j = i + 2]
                      ELSE [job EXCEPT ![k].to_remove = marked,
                                       ![k].duplicates_removed = Cardinality(marked),
                                       ![k].pc = "count"]
    /\ UNCHANGED <<args, input, media, fs0, mainpc, video_files, processing_summaries, totals, faults>>

RECURSIVE MarkFrom(_, _, _, _, _, _)
\* processing.py:159-164: the two loops from the pair (i, j) on, over the
\* sorted list rf of a folder whose files nothing else touches.
MarkFrom(to_remove, rf, files, i, j, duplicate_threshold) ==
    IF i >= Len(rf) THEN to_remove
    ELSE IF j > Len(rf)
         THEN MarkFrom(to_remove, rf, files, i + 1, i + 2, duplicate_threshold)
         ELSE MarkFrom(Mark(to_remove, rf[i], rf[j], files[rf[i]], files[rf[j]],
                            duplicate_threshold),
                       rf, files, i, j + 1, duplicate_threshold)

\* processing.py:139-164: what a duplicate stage that starts on the folder
\* `files` marks for removal.
PassMarks(files, duplicate_threshold) ==
    LET rf == Sorted({n \in Names : files[n] # Absent})
    IN  IF Len(rf) > 1 THEN MarkFrom({}, rf, files, 1, 2, duplicate_threshold) ELSE {}

\* processing.py:159-164: one turn of the inner loop, and the step to the
\* next pair (i in range(n), j in range(i + 1, n)); after the last pair the
\* deletions of processing.py:166 begin.
ComparePair(k) ==
    /\ job[k].pc = "dup"
    /\ LET rf == job[k].remaining_frames
           n == Len(rf)
           i == job[k].i
           j == job[k].j
           files == fs[job[k].output_folder].files
           marked == Mark(job[k].to_remove, rf[i], rf[j], files[rf[i]], files[rf[j]],
                          args.duplicate_threshold)
       IN  job' = IF j < n
                  THEN [job EXCEPT ![k].to_remove = marked, ![k].j = j + 1]
                  ELSE IF i + 1 < n
                  THEN [job EXCEPT ![k].to_remove = marked, ![k].i = i + 1, ![k].j = i + 2]
                  ELSE [job EXCEPT ![k].to_remove = marked, ![k].pending = marked,
                                   ![k].duplicates_removed =
                                       IF marked = {} THEN 0 ELSE @,
                                   ![k].pc = IF marked = {} THEN "count" ELSE "remove_dup"]
    /\ UNCHANGED <<args, input, media, fs, fs0, mainpc, video_files, processing_summaries, totals, faults>>

\* processing.py:166-172: one turn of the deletion loop over the set
\* to_remove, in the set's own order.
RemoveDuplicate(k) ==
    /\ job[k].pc = "remove_dup"
    /\ \E f \in job[k].pending :
         LET rest == job[k].pending \ {f}
             next == IF rest = {} THEN "count" ELSE "remove_dup"
             removed == IF rest = {} THEN Cardinality(job[k].to_remove)
                        ELSE job[k].duplicates_removed
             present == fs[job[k].output_folder].files[f] # Absent
         IN  \/ /\ present
                /\ fs' = RemoveFile(fs, job[k].output_folder, f)
                /\ job' = [job EXCEPT ![k].pending = rest, ![k].pc = next,
                                      ![k].duplicates_removed = removed]
                /\ NoFail
             \/ /\ ~present                             \* FileNotFoundError
                /\ job' = [job EXCEPT ![k].pending = rest, ![k].pc = next,
                                      ![k].duplicates_removed = removed,
                                      ![k].logged = @ \cup {"remove"}]
                /\ UNCHANGED <<fs, faults>>
             \/ /\ present
                /\ MayFail /\ Fail                      \* os.remove raises OSError
                /\ job' = [job EXCEPT ![k].pending = rest, ![k].pc = next,
                                      ![k].duplicates_removed = removed,
                                      ![k].undeleted = @ \cup {f},
                                      ![k].logged = @ \cup {"remove"}]
                /\ UNCHANGED fs
    /\ UNCHANGED <<args, input, media, fs0, mainpc, video_files, processing_summaries, totals>>

FinalCountInDryRunLeftAtZero(initial_frame_count, blurry_frames_removed, duplicates_removed) ==
    0

\* processing.py:181  final_frames_count = initial_frame_count
\*                        - blurry_frames_removed - duplicates_removed
FinalCountInDryRun(initial_frame_count, blurry_frames_removed, duplicates_removed) ==
    initial_frame_count - blurry_frames_removed - duplicates_removed

\* processing.py:174-191: the final count and the summary.
CountFinal(k) ==
    /\ job[k].pc = "count"
    /\ LET done(final) ==
               Return(k, Summary(job[k].video, job[k].output_folder,
                                 job[k].saved_frame_count,
                                 job[k].blurry_frames_removed,
                                 job[k].duplicates_removed, final, "none"))
       IN  \/ /\ ~TouchesDisk(args.dry_run)
              /\ job' = done(FinalCountInDryRun(job[k].saved_frame_count,
                                                 job[k].blurry_frames_removed,
                                                 job[k].duplicates_removed))
              /\ NoFail
           \/ /\ TouchesDisk(args.dry_run)
              /\ job' = done(Cardinality(JpgFiles(fs, job[k].output_folder)))
              /\ NoFail
           \/ /\ TouchesDisk(args.dry_run)
              /\ MayFail /\ Fail                        \* os.listdir raises OSError
              /\ job' = [done(0) EXCEPT ![k].logged = @ \cup {"final listing"}]
    /\ UNCHANGED <<args, input, media, fs, fs0, mainpc, video_files, processing_summaries, totals>>

\* ------------------------------------------------- _process_videos, the rest

CatchesNothing(raised) == FALSE

\* main.py:112  except Exception: what a job raises is an Exception.
Catches(raised) == TRUE

\* main.py:109-124: future.result() gives the summary or raises what the job
\* raised; the except clause turns that into a failure summary.
ResultOf(raised, result, video) ==
    IF raised THEN FailedSummary(video) ELSE result

\* main.py:107-125: as_completed hands over a finished future, whichever
\* finished, and its summary is appended.
Collect(k) ==
    /\ mainpc = "pool"
    /\ job[k].pc \in {"done", "raised"}
    /\ ~job[k].collected
    /\ IF job[k].pc = "raised" /\ ~Catches(TRUE)
       THEN /\ mainpc' = "crashed"       \* the exception leaves _process_videos
            /\ UNCHANGED processing_summaries
       ELSE /\ mainpc' = mainpc
            /\ processing_summaries' =
                   Append(processing_summaries,
                          ResultOf(job[k].pc = "raised", job[k].result, job[k].video))
    /\ job' = [job EXCEPT ![k].collected = TRUE]
    /\ UNCHANGED <<args, input, media, fs, fs0, video_files, totals, faults>>

\* main.py:126: every future has been handed over.
ProcessVideosReturn ==
    /\ mainpc = "pool"
    /\ \A k \in Jobs : job[k].collected
    /\ mainpc' = "log"
    /\ UNCHANGED <<args, input, media, fs, fs0, video_files, job, processing_summaries, totals, faults>>

IsFailedByError(summary) == summary.error # "none"

\* main.py:137  summary.get("status") == "failed"
IsFailed(summary) == summary.status = "failed"

RECURSIVE Totals(_)
\* main.py:130-145: the loop of _log_summaries.
Totals(summaries) ==
    IF summaries = <<>>
    THEN [extracted |-> 0, blurry |-> 0, duplicate |-> 0, final |-> 0, failed |-> 0]
    ELSE LET t == Totals(SubSeq(summaries, 1, Len(summaries) - 1))
             x == summaries[Len(summaries)]
         IN  IF IsFailed(x)
             THEN [t EXCEPT !.failed = @ + 1]
             ELSE [ extracted |-> t.extracted + x.extracted_frames,
                    blurry |-> t.blurry + x.blurry_frames_removed,
                    duplicate |-> t.duplicate + x.duplicate_frames_removed,
                    final |-> t.final + x.final_frames_count,
                    failed |-> t.failed ]

\* main.py:128-160  _log_summaries
LogSummaries ==
    /\ mainpc = "log"
    /\ totals' = Totals(processing_summaries)
    /\ mainpc' = "done"
    /\ UNCHANGED <<args, input, media, fs, fs0, video_files, job, processing_summaries, faults>>

Next ==
    \/ Discover
    \/ PrepareOutputDirectory
    \/ Submit
    \/ \E k \in Jobs : Start(k)
    \/ \E k \in Jobs : ExtractMakedirs(k)
    \/ \E k \in Jobs : ExtractOpen(k)
    \/ \E k \in Jobs : ExtractRead(k)
    \/ \E k \in Jobs : ListForBlur(k)
    \/ \E k \in Jobs : BlurCheck(k)
    \/ \E k \in Jobs : ListForDup(k)
    \/ \E k \in Jobs : ComparePair(k)
    \/ \E k \in Jobs : RemoveDuplicate(k)
    \/ \E k \in Jobs : CountFinal(k)
    \/ \E k \in Jobs : Collect(k)
    \/ ProcessVideosReturn
    \/ LogSummaries

Spec == Init /\ [][Next]_vars

\* One video file given on the command line.
SpecSingle == InitSingle /\ [][Next]_vars

\* One video file, written to a folder that holds frames of a long video.
SpecLong == InitLong /\ [][Next]_vars

\* The pool runs every job it was given and as_completed hands every
\* finished future over: no enabled step of the run is put off for ever.
FairSpec == Spec /\ WF_vars(Next)

\* ============================================================== properties

\* The job ran its duplicate stage on real files and has finished the
\* comparison pass.
PastComparisons(k) ==
    /\ TouchesDisk(args.dry_run)
    /\ \/ job[k].pc \in {"remove_dup", "count"}
       \/ job[k].pc = "done" /\ job[k].result.error = "none"
                             /\ job[k].result.extracted_frames > 0

\* The job has finished its duplicate stage, deletions included.
PastDeletions(k) == PastComparisons(k) /\ job[k].pc # "remove_dup"

\* similarity(i, j) >= t for the frames at positions i and j of the sorted
\* list, as they were when the list was taken.
Similar(k, i, j) ==
    LET a == job[k].snapshot[job[k].remaining_frames[i]]
        b == job[k].snapshot[job[k].remaining_frames[j]]
    IN  a.ok /\ b.ok /\ Ssim(a, b) >= args.duplicate_threshold

\* The positions j with some earlier i, removed or not, similar to j.
DuplicatePositions(k) ==
    {j \in 1 .. Len(job[k].remaining_frames) :
        \E i \in 1 .. (j - 1) : Similar(k, i, j)}

DuplicateSet(k) == {job[k].remaining_frames[j] : j \in DuplicatePositions(k)}

\* C1 (as amended): the duplicate stage marks exactly the frames at the
\* positions j for which some earlier position i < j, marked or not, has
\* similarity(i, j) >= t; duplicate_frames_removed is the size of that set;
\* and every marked frame is deleted except those whose os.remove failed.
C1_MarksExactlyLaterDuplicates ==
    \A k \in Jobs :
        PastComparisons(k) =>
            /\ job[k].to_remove = DuplicateSet(k)
            /\ PastDeletions(k) =>
                 /\ job[k].duplicates_removed = Cardinality(DuplicateSet(k))
                 /\ JpgFiles(fs, job[k].output_folder) =
                        (Range(job[k].remaining_frames) \ DuplicateSet(k))
                            \cup job[k].undeleted
            /\ job[k].pc = "done" =>
                 job[k].result.duplicate_frames_removed = Cardinality(DuplicateSet(k))

\* C1, witness: a finished pass of three frames in which the third is
\* similar only to the second, itself marked as a duplicate of the first,
\* and both were deleted.
C1_Witness ==
    \E k \in Jobs :
        /\ PastComparisons(k) /\ job[k].pc = "done"
        /\ Len(job[k].remaining_frames) = 3
        /\ DuplicatePositions(k) = {2, 3}
        /\ ~Similar(k, 1, 3)
        /\ job[k].undeleted = {}
        /\ JpgFiles(fs, job[k].output_folder) = {job[k].remaining_frames[1]}

\* C1 as stated: the frames marked are the frames removed.
C1_Original ==
    \A k \in Jobs :
        (PastComparisons(k) /\ job[k].pc = "done") =>
            /\ JpgFiles(fs, job[k].output_folder) =
                   Range(job[k].remaining_frames) \ DuplicateSet(k)
            /\ job[k].result.duplicate_frames_removed = Cardinality(DuplicateSet(k))

\* extract_frames has returned to process_video_frames (processing.py:97).
ExtractReturned(k) == job[k].pc \notin {"queued", "makedirs", "open", "read", "raised"}

\* The original frames of job k's video.
FrameTotal(k) == Len(media[job[k].video].frames)

\* The indices of {0, k, 2k, ...} below F.
StrideIndices(k) == {x \in 0 .. (FrameTotal(k) - 1) : x % args.interval = 0}

\* extract_frames gave up before decoding anything.
GaveUpEarly(k) == job[k].logged \cap {"makedirs", "open"} # {}

\* C2 (as amended): extract_frames returns the number of indices of
\* {0, k, 2k, ...} below F whose frame was written (all of them under
\* dry-run), 0 when the output directory cannot be created or the video
\* does not open, and extracted_frames reports that number.
C2_CountsWrittenStrideIndices ==
    \A k \in Jobs :
        ExtractReturned(k) =>
            /\ job[k].saved_frame_count =
                   IF GaveUpEarly(k) THEN 0
                   ELSE Cardinality(StrideIndices(k) \ job[k].unwritten)
            /\ ~TouchesDisk(args.dry_run) => job[k].unwritten = {}
            /\ job[k].pc = "done" =>
                   job[k].result.extracted_frames = job[k].saved_frame_count

\* C2, witness: a real run over three frames with stride 2 reports the two
\* frames 0 and 2.
C2_Witness ==
    \E k \in Jobs :
        /\ job[k].pc = "done" /\ TouchesDisk(args.dry_run)
        /\ FrameTotal(k) = 3 /\ args.interval = 2
        /\ job[k].result.extracted_frames = 2

\* C2 as stated: the count is the number of stride indices below F.
C2_Original ==
    \A k \in Jobs :
        job[k].pc = "done" =>
            job[k].result.extracted_frames = Cardinality(StrideIndices(k))

\* ceil(a / b) for b >= 1.
Ceil(a, b) == (a + b - 1) \div b

\* C8 (as amended): the count a dry run reports is ceil(F / stride); a real
\* run reports the same count when its output directory was created and
\* every write succeeded, and never a larger one.
C8_DryRunCountIsCeiling ==
    \A k \in Jobs :
        (job[k].pc = "done" /\ media[job[k].video].openable) =>
            LET reported == job[k].result.extracted_frames
                ceiling == Ceil(FrameTotal(k), args.interval)
            IN  /\ ~TouchesDisk(args.dry_run) => reported = ceiling
                /\ (TouchesDisk(args.dry_run) /\ ~GaveUpEarly(k) /\ job[k].unwritten = {})
                       => reported = ceiling
                /\ reported <= ceiling

\* C8, witness: a dry run over three frames with stride 2 reports 2.
C8_Witness ==
    \E k \in Jobs :
        /\ job[k].pc = "done" /\ args.dry_run
        /\ FrameTotal(k) = 3 /\ args.interval = 2
        /\ job[k].result.extracted_frames = 2

\* C8 as stated: dry run and real run both report ceil(F / stride).
C8_Original ==
    \A k \in Jobs :
        (job[k].pc = "done" /\ media[job[k].video].openable) =>
            job[k].result.extracted_frames = Ceil(FrameTotal(k), args.interval)

\* The summary _process_videos collected for job k, if it has one.
SummariesOf(k) ==
    {x \in DOMAIN processing_summaries : processing_summaries[x].video = job[k].video}

\* The job failed in one of the ways the claim C3 lists.
JobFailed(k) ==
    job[k].logged \cap {"makedirs", "open", "blur listing", "duplicate listing",
                        "final listing"} # {}

\* C3 as stated: the summary of a job whose video did not open, whose
\* directory could not be created or whose listing failed is a failure
\* result that _log_summaries counts as failed; an unopenable video's four
\* counts are 0.
C3_Original ==
    /\ \A k \in Jobs : \A x \in SummariesOf(k) :
           LET summary == processing_summaries[x]
           IN  /\ JobFailed(k) => IsFailed(summary)
               /\ ~media[job[k].video].openable =>
                      /\ summary.extracted_frames = 0
                      /\ summary.blurry_frames_removed = 0
                      /\ summary.duplicate_frames_removed = 0
                      /\ summary.final_frames_count = 0
    /\ mainpc = "done" =>
           totals.failed >= Cardinality({k \in Jobs : JobFailed(k)})

\* Every submitted video has exactly one summary, every job has run to its
\* end, and a job that returned has the summary it returned.
OneSummaryPerVideo ==
    /\ Len(processing_summaries) = Len(video_files)
    /\ \A k \in Jobs :
           /\ job[k].pc \in {"done", "raised"}
           /\ Cardinality(SummariesOf(k)) = 1
           /\ \A x \in SummariesOf(k) :
                  IF job[k].pc = "raised"
                  THEN IsFailed(processing_summaries[x])
                  ELSE processing_summaries[x] = job[k].result

\* C4: once the videos are submitted, _process_videos comes to its return
\* with exactly one summary per submitted video, whichever jobs failed or
\* raised, every job having run to its end; and no exception of a job
\* leaves _process_videos.
C4_EveryVideoGetsOneSummary ==
    /\ [](mainpc # "crashed")
    /\ (mainpc = "pool") ~> (mainpc = "log" /\ OneSummaryPerVideo)

\* C4, witness: two videos, one job raised, the other extracted frames, and
\* _process_videos returned a summary for each.
C4_Witness ==
    /\ mainpc = "log" /\ OneSummaryPerVideo
    /\ Len(video_files) = 2
    /\ \E k1, k2 \in Jobs :
           /\ job[k1].pc = "raised"
           /\ job[k2].pc = "done" /\ job[k2].result.extracted_frames > 0

\* C5 as stated: two distinct discovered videos never share an output
\* directory.
C5_Original ==
    \A k1, k2 \in Jobs : k1 # k2 => job[k1].output_folder # job[k2].output_folder

\* C7: under dry-run the filesystem stays as the run found it, through the
\* preparation of the output directory and every step of every job.
C7_DryRunLeavesFilesystemAlone == args.dry_run => fs = fs0

\* C7, witness: a finished dry run that reported two extracted frames.
C7_Witness ==
    /\ args.dry_run /\ mainpc = "done"
    /\ \E k \in Jobs : job[k].pc = "done" /\ job[k].result.extracted_frames = 2

\* The sharpness loop of a real run has just visited its last frame.
SharpnessStageDone(k) == TouchesDisk(args.dry_run) /\ job[k].pc = "list_dup"

\* The frames the sharpness stage listed.
ListedNames(k) == {n \in Names : job[k].listed[n] # Absent}

\* Those of them whose focus measure is strictly below the threshold.
BelowThreshold(k) ==
    {n \in ListedNames(k) : CalculateSharpness(job[k].listed[n]) < args.sharpness}

\* C9 (as amended): the sharpness stage deletes a frame only if its focus
\* measure is strictly below the threshold, deletes every such frame except
\* those whose os.remove failed, and blurry_frames_removed is the number of
\* frames it deleted; in whatever order the frames are visited.
C9_DeletesExactlyBlurryFrames ==
    \A k \in Jobs :
        SharpnessStageDone(k) =>
            /\ job[k].unremoved \subseteq BelowThreshold(k)
            /\ JpgFiles(fs, job[k].output_folder) =
                   (ListedNames(k) \ BelowThreshold(k)) \cup job[k].unremoved
            /\ job[k].blurry_frames_removed =
                   Cardinality(BelowThreshold(k) \ job[k].unremoved)

\* C9, witness: at threshold 100 a frame measuring exactly 100 was kept and
\* a frame measuring 0 was deleted, no deletion having failed.
C9_Witness ==
    \E k \in Jobs :
        /\ SharpnessStageDone(k) /\ args.sharpness = 100
        /\ job[k].unremoved = {}
        /\ job[k].blurry_frames_removed >= 1
        /\ \E n \in ListedNames(k) :
               /\ job[k].listed[n].ok /\ job[k].listed[n].s = 100
               /\ n \in JpgFiles(fs, job[k].output_folder)
        /\ \E n \in ListedNames(k) :
               /\ job[k].listed[n].ok /\ job[k].listed[n].s = 0
               /\ n \notin JpgFiles(fs, job[k].output_folder)

\* C9 as stated: deleted if and only if strictly below the threshold.
C9_Original ==
    \A k \in Jobs :
        SharpnessStageDone(k) =>
            /\ JpgFiles(fs, job[k].output_folder) = ListedNames(k) \ BelowThreshold(k)
            /\ job[k].blurry_frames_removed = Cardinality(BelowThreshold(k))

\* The frames of the listing the sharpness test keeps at threshold t.
KeptAt(k, t) ==
    {n \in ListedNames(k) : ~IsBlurry(CalculateSharpness(job[k].listed[n]), t)}

\* Thresholds to compare, around the focus measures in use.
ProbeThresholds == {0, 50, 100, 150, 200}

FolderAfterExtract(files, frames, frame_interval) ==
    [n \in Names |->
        LET written == {x \in 0 .. (Len(frames) - 1) :
                            IsSampled(x, frame_interval) /\ FrameFilename(x, x) = n}
        IN  IF written = {} THEN files[n]
            ELSE frames[(CHOOSE x \in written : TRUE) + 1]]

\* processing.py:126-136: the folder after the sharpness stage.
FolderAfterSharpness(files, sharpness_threshold) ==
    [n \in Names |->
        IF files[n] # Absent /\ IsBlurry(CalculateSharpness(files[n]), sharpness_threshold)
        THEN Absent ELSE files[n]]

\* processing.py:138-172: the folder after the duplicate stage.
FolderAfterDuplicates(files, duplicate_threshold) ==
    LET rf == Sorted({n \in Names : files[n] # Absent})
        dups == {rf[j] : j \in {y \in 1 .. Len(rf) :
                    \E x \in 1 .. (y - 1) :
                        AreImagesDuplicates(files[rf[x]], files[rf[y]], duplicate_threshold)}}
    IN  [n \in Names |-> IF n \in dups THEN Absent ELSE files[n]]

\* processing.py:81-191 for one video.
FilesystemAfterJob(filesystem, video_file, folder) ==
    IF ~TouchesDisk(args.dry_run) THEN filesystem
    ELSE LET made == Makedirs(filesystem, folder)
             frames == media[video_file].frames
         IN  IF ~media[video_file].openable \/ frames = <<>> THEN made
             ELSE [made EXCEPT ![folder].files =
                      FolderAfterDuplicates(
                          FolderAfterSharpness(
                              FolderAfterExtract(@, frames, args.interval),
                              args.sharpness),
                          args.duplicate_threshold)]

RECURSIVE FilesystemAfterJobs(_, _)
\* The jobs of the batch run one after the other, in the order submitted
\* (the run a pool of one worker makes).
FilesystemAfterJobs(filesystem, videos) ==
    IF videos = <<>> THEN filesystem
    ELSE LET before == FilesystemAfterJobs(filesystem, SubSeq(videos, 1, Len(videos) - 1))
             last == videos[Len(videos)]
         IN  FilesystemAfterJob(before, last, VideoSpecificOutputFolder(last, input.isdir))

\* A batch in which nothing failed has run to its end.
BatchDoneUndisturbed == mainpc = "done" /\ faults = 0

\* C6 as stated: the kept-frame filenames of every output directory are the
\* same in every run of the batch, whatever the interleaving: they are those
\* of the run in which the jobs follow one another.
C6_Original ==
    BatchDoneUndisturbed =>
        \A d \in Folders :
            JpgFiles(fs, d) =
                JpgFiles(FilesystemAfterJobs(
                             IF TouchesDisk(args.dry_run)
                             THEN Makedirs(fs0, OutputDirectory) ELSE fs0,
                             video_files), d)

\* With one worker the jobs do follow one another, and the batch leaves
\* what the function above says.
SequentialRunMatchesFunction ==
    (BatchDoneUndisturbed /\ args.workers = 1) =>
        fs = FilesystemAfterJobs(
                 IF TouchesDisk(args.dry_run)
                 THEN Makedirs(fs0, OutputDirectory) ELSE fs0,
                 video_files)

\* Jobs that share no folder leave what the function says under any
\* interleaving.
DisjointRunMatchesFunction ==
    (BatchDoneUndisturbed /\ C5_Original) =>
        fs = FilesystemAfterJobs(
                 IF TouchesDisk(args.dry_run)
                 THEN Makedirs(fs0, OutputDirectory) ELSE fs0,
                 video_files)

\* C11 as stated: when extract_frames has returned or raised, the decoder
\* handle it acquired is released.
C11_Original ==
    \A k \in Jobs : job[k].pc \in {"done", "raised"} => job[k].cap # "open"

\* The job is in its sharpness stage or past it.
InFilterOrLater(k) ==
    job[k].pc \in {"list_blur", "blur", "list_dup", "dup", "remove_dup", "count"}

\* The job is about to list for its duplicate stage, or past that.
InDuplicatesOrLater(k) == job[k].pc \in {"list_dup", "dup", "remove_dup", "count"}

\* The files the duplicate stage listed.
SnapshotNames(k) == {n \in Names : job[k].snapshot[n] # Absent}

\* C12: within one job the stages follow one another.  From the moment the
\* sharpness stage is about to list the folder the decoder is released and
\* every original frame has been read; the listing it takes holds every
\* frame the sampler wrote, the last one included; from the moment the
\* duplicate stage is about to list the folder the sharpness loop has
\* visited every file it listed; and the listing the duplicate stage takes
\* is the folder after every deletion of the sharpness stage.
C12_StagesRunInOrder ==
    \A k \in Jobs :
        /\ InFilterOrLater(k) =>
               /\ job[k].cap = "released"
               /\ job[k].frame_count = FrameTotal(k)
        /\ (TouchesDisk(args.dry_run) /\ InFilterOrLater(k) /\ job[k].pc # "list_blur") =>
               \A x \in StrideIndices(k) \ job[k].unwritten :
                   job[k].listed[ZeroPad(Digits(x), PadWidth)] =
                       media[job[k].video].frames[x + 1]
        /\ InDuplicatesOrLater(k) => job[k].frame_files = {}
        /\ (TouchesDisk(args.dry_run) /\ job[k].pc \in {"dup", "remove_dup", "count"}) =>
               SnapshotNames(k) = (ListedNames(k) \ BelowThreshold(k)) \cup job[k].unremoved

\* C12, witness: a job over three frames is comparing pairs, its sharpness
\* stage having listed three frames and deleted one of them.
C12_Witness ==
    \E k \in Jobs :
        /\ job[k].pc = "dup" /\ FrameTotal(k) = 3
        /\ Cardinality(ListedNames(k)) = 3
        /\ job[k].blurry_frames_removed = 1
        /\ Cardinality(SnapshotNames(k)) = 2

\* C13: while the duplicate stage compares pairs the folder is as the stage
\* listed it: the list compared is the sorted snapshot, every file of it is
\* still there, a frame already marked included.  The deletions begin only
\* after the last pair (n - 1, n), when to_remove is what the whole pass
\* marks, and they delete marked frames only.
C13_DeletionsFollowComparisons ==
    \A k \in Jobs :
        LET rf == job[k].remaining_frames
            here == fs[job[k].output_folder].files
        IN  /\ job[k].pc = "dup" =>
                   /\ rf = Sorted(SnapshotNames(k))
                   /\ here = job[k].snapshot
                   /\ \A x \in 1 .. Len(rf) : here[rf[x]] # Absent
                   /\ job[k].to_remove \subseteq JpgFiles(fs, job[k].output_folder)
            /\ job[k].pc = "remove_dup" =>
                   /\ job[k].i = Len(rf) - 1 /\ job[k].j = Len(rf)
                   /\ job[k].to_remove = DuplicateSet(k)
                   /\ job[k].pending \subseteq job[k].to_remove
                   /\ JpgFiles(fs, job[k].output_folder) =
                          SnapshotNames(k) \
                              ((job[k].to_remove \ job[k].pending) \ job[k].undeleted)

\* C13, witness: in a pass over three frames the second is marked, pairs
\* are still to be compared, and the marked file is still in the folder.
C13_Witness ==
    \E k \in Jobs :
        /\ job[k].pc = "dup" /\ Len(job[k].remaining_frames) = 3
        /\ job[k].remaining_frames[2] \in job[k].to_remove
        /\ job[k].i = 2 /\ job[k].j = 3
        /\ job[k].remaining_frames[2] \in JpgFiles(fs, job[k].output_folder)

RECURSIVE IndexOf(_)
\* The original frame index a file name carries: int() of its digits.
IndexOf(name) ==
    IF name = <<>> THEN 0
    ELSE 10 * IndexOf(SubSeq(name, 1, Len(name) - 1)) + name[Len(name)]

\* C14 as stated: the list the duplicate stage compares is in ascending
\* order of original frame index; a frame is marked only as a duplicate of
\* a frame with a smaller index; and the frame with the smallest index of
\* those compared is not marked.
C14_Original ==
    \A k \in Jobs :
        job[k].pc \in {"dup", "remove_dup"} =>
            LET rf == job[k].remaining_frames
                smallest == CHOOSE n \in Range(rf) :
                                \A m \in Range(rf) : IndexOf(n) <= IndexOf(m)
            IN  /\ \A x, y \in 1 .. Len(rf) :
                       x < y => IndexOf(rf[x]) < IndexOf(rf[y])
                /\ \A y \in 1 .. Len(rf) :
                       rf[y] \in job[k].to_remove =>
                           \E x \in 1 .. Len(rf) :
                               /\ IndexOf(rf[x]) < IndexOf(rf[y])
                               /\ Similar(k, x, y)
                /\ smallest \notin job[k].to_remove

\* Every file the duplicate stage listed decodes.
WellFormed(k) == \A n \in SnapshotNames(k) : job[k].snapshot[n].ok

\* C15 as stated, for the runs in which nothing failed: the duplicate stage
\* at threshold 0.0 over a non-empty list of decodable frames leaves
\* exactly one frame.
C15_Original ==
    \A k \in Jobs :
        ( /\ PastDeletions(k) /\ faults = 0
          /\ args.duplicate_threshold = 0
          /\ job[k].remaining_frames # <<>> /\ WellFormed(k) ) =>
            Cardinality(JpgFiles(fs, job[k].output_folder)) = 1

\* The folder of job k as it is now.
FolderNow(k) == fs[job[k].output_folder].files

\* C16 (as amended): a duplicate stage run again, with the same threshold,
\* on the folder a finished duplicate stage left marks no frame other than
\* those the first one marked and os.remove failed to delete; it marks
\* nothing when every deletion of the first succeeded.  (The pass the job
\* ran is what PassMarks says of the folder it listed.)
C16_SecondPassRemovesNothingNew ==
    \A k \in Jobs :
        PastDeletions(k) =>
            /\ job[k].to_remove = PassMarks(job[k].snapshot, args.duplicate_threshold)
            /\ PassMarks(FolderNow(k), args.duplicate_threshold) \subseteq job[k].undeleted
            /\ job[k].undeleted = {} =>
                   PassMarks(FolderNow(k), args.duplicate_threshold) = {}

\* C16, witness: a finished pass over three frames that deleted two of them,
\* the third similar only to the second, and left a folder in which a
\* second pass marks nothing.
C16_Witness ==
    \E k \in Jobs :
        /\ PastDeletions(k) /\ Len(job[k].remaining_frames) = 3
        /\ Cardinality(job[k].to_remove) = 2 /\ job[k].undeleted = {}
        /\ ~Similar(k, 1, 3)
        /\ JpgFiles(fs, job[k].output_folder) = {job[k].remaining_frames[1]}
        /\ PassMarks(FolderNow(k), args.duplicate_threshold) = {}

\* C16 as stated: a second pass on the folder the first left removes
\* nothing.
C16_Original ==
    \A k \in Jobs :
        PastDeletions(k) => PassMarks(FolderNow(k), args.duplicate_threshold) = {}

\* C17 as stated, for the runs in which nothing failed: when the sharpness
\* stage is over no file it listed that does not decode is left in the
\* folder, whatever the threshold, and the job has gone on to its duplicate
\* stage.
C17_Original ==
    \A k \in Jobs :
        (SharpnessStageDone(k) /\ faults = 0) =>
            \A n \in ListedNames(k) :
                ~job[k].listed[n].ok =>
                    /\ CalculateSharpness(job[k].listed[n]) = 0
                    /\ n \notin JpgFiles(fs, job[k].output_folder)

\* _process_videos has submitted its jobs.
Dispatched == mainpc \in {"pool", "log", "done", "crashed"}

\* The videos the input path holds.
Discovered ==
    IF input.isdir
    THEN {x \in DOMAIN input.listing : IsVideoName(input.listing[x])}
    ELSE DOMAIN input.listing

\* C18 as stated: with --limit L at most L jobs are dispatched, and without
\* a limit every discovered video gets one.
C18_Original ==
    Dispatched =>
        /\ args.limit # <<>> => Len(job) <= args.limit[1]
        /\ args.limit = <<>> => Len(job) = Cardinality(Discovered)

\* The original indices whose frame job k has written so far.
WrittenSoFar(k) ==
    {x \in StrideIndices(k) \ job[k].unwritten : x < job[k].frame_count}

\* C19: while extract_frames samples, and when it has returned, the folder
\* holds the frame of every original index i written so far under the name
\* of i itself, i in decimal padded with zeros to four digits, whatever the
\* stride and whichever earlier writes failed; every other name is as the
\* run found it.
C19_NamedFromOriginalIndex ==
    \A k \in Jobs :
        (TouchesDisk(args.dry_run) /\ job[k].pc \in {"read", "list_blur"}) =>
            \A n \in Names :
                LET written == {x \in WrittenSoFar(k) : ZeroPad(Digits(x), PadWidth) = n}
                IN  /\ Cardinality(written) <= 1
                    /\ \A x \in written :
                           FolderNow(k)[n] = media[job[k].video].frames[x + 1]
                    /\ written = {} =>
                           FolderNow(k)[n] = fs0[job[k].output_folder].files[n]

\* C19, witness: extract_frames has returned from a video of three frames
\* sampled at stride 2; its second saved frame, original index 2, is in
\* frame_0002.jpg and frame_0001.jpg is as the run found it.
C19_Witness ==
    \E k \in Jobs :
        /\ TouchesDisk(args.dry_run) /\ job[k].pc = "list_blur"
        /\ args.interval = 2 /\ FrameTotal(k) = 3
        /\ job[k].saved_frame_count = 2
        /\ FolderNow(k)[<<0, 0, 0, 2>>] = media[job[k].video].frames[3]
        /\ FolderNow(k)[<<0, 0, 0, 1>>] = fs0[job[k].output_folder].files[<<0, 0, 0, 1>>]

RECURSIVE SumField(_, _)
\* The sum of one count over a set of collected summaries.
SumField(S, field) ==
    IF S = {} THEN 0
    ELSE LET x == CHOOSE y \in S : TRUE
         IN  processing_summaries[x][field] + SumField(S \ {x}, field)

\* The collected summaries marked failed, and the others.
MarkedFailed == {x \in DOMAIN processing_summaries : processing_summaries[x].status = "failed"}

NotMarkedFailed == DOMAIN processing_summaries \ MarkedFailed

\* The summaries in another order of collection.
Reorderings ==
    LET D == DOMAIN processing_summaries
    IN  { [x \in D |-> processing_summaries[p[x]]] :
              p \in {q \in [D -> D] : \A a, b \in D : a # b => q[a] # q[b]} }

\* C20: the four totals _log_summaries reports are the sums of the counts
\* over the summaries not marked failed, its failed-video total is the
\* number of summaries marked failed, and the loop gives the same totals for
\* the summaries in any other order.
C20_TotalsSumNonFailedSummaries ==
    mainpc = "done" =>
        /\ totals.extracted = SumField(NotMarkedFailed, "extracted_frames")
        /\ totals.blurry = SumField(NotMarkedFailed, "blurry_frames_removed")
        /\ totals.duplicate = SumField(NotMarkedFailed, "duplicate_frames_removed")
        /\ totals.final = SumField(NotMarkedFailed, "final_frames_count")
        /\ totals.failed = Cardinality(MarkedFailed)
        /\ \A other \in Reorderings : Totals(other) = totals

\* C20, witness: the report of a batch of two videos, one marked failed and
\* one that extracted a frame, collected in the order opposite to
\* submission.
C20_Witness ==
    /\ mainpc = "done" /\ Len(processing_summaries) = 2
    /\ totals.failed = 1 /\ totals.extracted = 1
    /\ processing_summaries[1].video = video_files[2]
    /\ processing_summaries[1] # processing_summaries[2]

\* The summary reports nothing removed and every extracted frame left.
NothingRemoved(summary) ==
    /\ summary.blurry_frames_removed = 0
    /\ summary.duplicate_frames_removed = 0
    /\ summary.final_frames_count = summary.extracted_frames

\* C21: under dry-run every summary, that of a job that returned and that
\* of a job that raised, as process_video_frames returns it and as
\* _process_videos collects it, reports no blurry and no duplicate frame
\* removed and a final count equal to the extracted count.
C21_DryRunSummariesRemoveNothing ==
    args.dry_run =>
        /\ \A k \in Jobs : job[k].pc = "done" => NothingRemoved(job[k].result)
        /\ \A x \in DOMAIN processing_summaries :
               NothingRemoved(processing_summaries[x])

\* C21, witness: a dry run has collected the summary of a video of three
\* frames, two of them blurry at the threshold in force: three extracted,
\* three left.
C21_Witness ==
    /\ args.dry_run /\ args.sharpness = 100 /\ args.interval = 1
    /\ \E x \in DOMAIN processing_summaries :
           /\ processing_summaries[x].extracted_frames = 3
           /\ processing_summaries[x].final_frames_count = 3
    /\ \E k \in Jobs :
           Cardinality({y \in DOMAIN media[job[k].video].frames :
                           media[job[k].video].frames[y].s < 100}) = 2

\* The files of the duplicate stage's list that cv2.imread does not decode.
Unreadable(k) == {n \in SnapshotNames(k) : ~job[k].snapshot[n].ok}

\* The sorted list with the unreadable files left out.
ReadableFrames(k) == Sorted(SnapshotNames(k) \ Unreadable(k))

\* What the pass marks among the readable files alone: a file with an
\* earlier file of structural similarity >= t.
MarkedAmongReadable(k) ==
    LET rr == ReadableFrames(k)
    IN  { rr[y] : y \in { z \in 1 .. Len(rr) :
                     \E x \in 1 .. (z - 1) :
                         Ssim(job[k].snapshot[rr[x]], job[k].snapshot[rr[z]])
                             >= args.duplicate_threshold } }

\* C22: a file of the duplicate stage's list that cannot be read is never
\* in the removal set, during the pass or after it; when the pass is over
\* the removal set is what the pass would have marked had the unreadable
\* files not been in the list, so none of them had another frame added; and
\* the pass runs to its last pair: a job raises only before it has stages.
C22_UnreadableFramesExcluded ==
    \A k \in Jobs :
        /\ job[k].pc \in {"dup", "remove_dup", "count", "done"} =>
               job[k].to_remove \cap Unreadable(k) = {}
        /\ PastComparisons(k) => job[k].to_remove = MarkedAmongReadable(k)
        /\ job[k].pc = "raised" => job[k].remaining_frames = <<>>

\* C22, witness: a finished job whose duplicate stage listed three files,
\* the second unreadable, and marked the third as a duplicate of the first;
\* the unreadable file is still in the folder.
C22_Witness ==
    \E k \in Jobs :
        /\ PastComparisons(k) /\ job[k].pc = "done"
        /\ Len(job[k].remaining_frames) = 3
        /\ Unreadable(k) = {job[k].remaining_frames[2]}
        /\ job[k].to_remove = {job[k].remaining_frames[3]}
        /\ job[k].remaining_frames[2] \in JpgFiles(fs, job[k].output_folder)

\* process_video_frames has returned from a real run a summary with no
\* "error" entry.
ReturnedWithoutError(k) ==
    /\ TouchesDisk(args.dry_run)
    /\ job[k].pc = "done" /\ job[k].result.error = "none"

\* C23 as stated: a summary of a real run that carries no error entry has
\* extracted = blurry removed + duplicates removed + final count, and its
\* final count is the number of frame files left in the output directory.
C23_Original ==
    \A k \in Jobs :
        ReturnedWithoutError(k) =>
            /\ job[k].result.extracted_frames =
                   job[k].result.blurry_frames_removed
                       + job[k].result.duplicate_frames_removed
                       + job[k].result.final_frames_count
            /\ job[k].result.final_frames_count =
                   Cardinality(JpgFiles(fs, job[k].output_folder))

\* The same accounting does hold for the runs in which nothing failed and
\* the output directory held no frame file when the run began.
FreshFolderSummaryAddsUp ==
    \A k \in Jobs :
        ( /\ ReturnedWithoutError(k) /\ faults = 0
          /\ JpgFiles(fs0, job[k].output_folder) = {}
          /\ job[k].result.extracted_frames > 0 ) =>
            /\ job[k].result.extracted_frames =
                   job[k].result.blurry_frames_removed
                       + job[k].result.duplicate_frames_removed
                       + job[k].result.final_frames_count
            /\ job[k].result.final_frames_count =
                   Cardinality(JpgFiles(fs, job[k].output_folder))

\* C24 as stated: a frame file that was in the output directory when the run
\* began, and that the sampler has not rewritten, is in the folder as it
\* was: no stage of the job deletes it.
C24_Original ==
    \A k \in Jobs :
        \A n \in JpgFiles(fs0, job[k].output_folder) :
            n \notin {ZeroPad(Digits(x), PadWidth) : x \in WrittenSoFar(k)} =>
                FolderNow(k)[n] = fs0[job[k].output_folder].files[n]

\* The duplicate stage has finished over readable frames and every deletion
\* succeeded.
CleanPassDone(k) == PastDeletions(k) /\ WellFormed(k) /\ job[k].undeleted = {}

\* The positions of the sorted list whose file is still in the folder.
SurvivorPositions(k) ==
    {x \in 1 .. Len(job[k].remaining_frames) :
        job[k].remaining_frames[x] \in JpgFiles(fs, job[k].output_folder)}

\* C25: when the duplicate stage has finished, all its frames readable and
\* all its deletions done, every two surviving frames at sorted positions
\* i < j have similarity(i, j) < t, the files being as the stage listed
\* them.
C25_SurvivorsPairwiseDistinct ==
    \A k \in Jobs :
        CleanPassDone(k) =>
            \A i, j \in SurvivorPositions(k) :
                i < j =>
                    /\ FolderNow(k)[job[k].remaining_frames[i]] =
                           job[k].snapshot[job[k].remaining_frames[i]]
                    /\ FolderNow(k)[job[k].remaining_frames[j]] =
                           job[k].snapshot[job[k].remaining_frames[j]]
                    /\ Ssim(job[k].snapshot[job[k].remaining_frames[i]],
                            job[k].snapshot[job[k].remaining_frames[j]])
                           < args.duplicate_threshold

\* C25, witness: a finished pass over three readable frames that deleted the
\* third and left the first two, whose similarity is below the threshold.
C25_Witness ==
    \E k \in Jobs :
        /\ CleanPassDone(k) /\ job[k].pc = "done"
        /\ Len(job[k].remaining_frames) = 3
        /\ SurvivorPositions(k) = {1, 2}
        /\ ~Similar(k, 1, 2)

====
